---- MODULE Spec2Model ----
(***************************************************************************)
(* Markdown Mimic (src/mimic.py): propagation of template content into the *)
(* tagged regions of target files.                                         *)
(*                                                                         *)
(* Text is modelled as a sequence of units.  A unit is either one of the   *)
(* tags "<!--MIMIC_<ID>_START-->" / "<!--MIMIC_<ID>_END-->" or a single     *)
(* character.  A tag begins with "<", ends with ">" and holds neither      *)
(* character in between, so two tag occurrences in a text never overlap    *)
(* and a text splits into units in exactly one way; substring tests and    *)
(* regular-expression matches on the text are then tests on the units.     *)
(***************************************************************************)
EXTENDS Integers, Sequences, FiniteSets, TLC

(* ---------------------------- bounds ---------------------------------- *)
MaxTargetLen == 6   \* longest target text given to generate_new_content alone
MaxRuns == 2        \* runs of main in succession
MaxFaults == 1      \* passes over a source file in which an I/O operation fails

(* ---------------------------- text ------------------------------------ *)
BS == "\\"          \* the backslash character
NL == "\n"          \* the newline character
Q == "q"            \* an ASCII letter that names no escape sequence

\* src/mimic.py:176-177
start_tag(identifier) == "<!--MIMIC_" \o identifier \o "_START-->"
end_tag(identifier) == "<!--MIMIC_" \o identifier \o "_END-->"

Letters == {Q}
NoText == <<"<no text>">>   \* stands for "no value": never a text of the program

NoFile == <<"<no file>">>   \* stands for "no file at this path"

\* `tag in file_content` (src/mimic.py:195)
contains(text, tag) == \E i \in 1..Len(text) : text[i] = tag

SA == start_tag("A")
EA == end_tag("A")
SB == start_tag("B")
EB == end_tag("B")

(* ------------------- generate_new_content ----------------------------- *)
\* Position of the first end_tag at or after `from`, 0 when there is none.
find_end(text, from, etag) ==
  IF \E j \in from..Len(text) : text[j] = etag
  THEN CHOOSE j \in from..Len(text) :
         /\ text[j] = etag
         /\ \A k \in from..(j - 1) : text[k] # etag
  ELSE 0

\* The pattern start_tag[\s\S]+?end_tag tried at position i: the position of the
\* unit that ends the match, 0 when it does not match there.  "+?" takes at
\* least one character, then as few as possible, so the end tag found is the
\* first one that begins at least one unit after the start tag.
match_end(text, i, stag, etag) ==
  IF text[i] = stag THEN find_end(text, i + 2, etag) ELSE 0

\* re.search(pattern, target_content)
re_search(text, stag, etag) ==
  \E i \in 1..Len(text) : match_end(text, i, stag, etag) # 0

\* The replacement string as re.sub reads it: a backslash starts an escape.
\* "\\" is one backslash, a backslash before an ASCII letter that names no
\* escape is an error ("bad escape"), as is a backslash that ends the string;
\* a backslash before any other character stays as written.
RECURSIVE parse_template(_, _)
parse_template(repl, i) ==
  IF i > Len(repl) THEN [raised |-> FALSE, text |-> <<>>]
  ELSE IF repl[i] # BS
    THEN LET rest == parse_template(repl, i + 1)
         IN [raised |-> rest.raised, text |-> <<repl[i]>> \o rest.text]
  ELSE IF i = Len(repl) THEN [raised |-> TRUE, text |-> <<>>]
  ELSE IF repl[i + 1] = BS
    THEN LET rest == parse_template(repl, i + 2)
         IN [raised |-> rest.raised, text |-> <<BS>> \o rest.text]
  ELSE IF repl[i + 1] \in Letters THEN [raised |-> TRUE, text |-> <<>>]
  ELSE LET rest == parse_template(repl, i + 2)
       IN [raised |-> rest.raised, text |-> <<BS, repl[i + 1]>> \o rest.text]

\* re.sub(pattern, replacement, target_content) with no count: every match,
\* left to right, none overlapping, is replaced.
RECURSIVE re_sub(_, _, _, _, _)
re_sub(expanded, text, i, stag, etag) ==
  IF i > Len(text) THEN <<>>
  ELSE LET j == match_end(text, i, stag, etag)
       IN IF j # 0
          THEN expanded \o re_sub(expanded, text, j + 1, stag, etag)
          ELSE <<text[i]>> \o re_sub(expanded, text, i + 1, stag, etag)

\* src/mimic.py:71-81.  raised: the call ends in an exception (re.error).
generate_new_content(source_content, target_content, stag, etag) ==
  LET replacement == <<stag, NL>> \o source_content \o <<NL, etag>>
  IN IF re_search(target_content, stag, etag)
     THEN LET t == parse_template(replacement, 1)
          IN IF t.raised
             THEN [raised |-> TRUE, value |-> NoText]
             ELSE [raised |-> FALSE,
                   value |-> re_sub(t.text, target_content, 1, stag, etag)]
     ELSE [raised |-> FALSE, value |-> target_content]

VARIABLES
  g_pc, g_source, g_target, g_ret,            \* generate_new_content alone
  s_pc, workspace, output_folder_in, output_folder, matching_files, selected,
                                              \* the selection of source files
  pc, overwrite_original, mimic_files, template_text, source_files,
  files, ti, fi, source_content, modified_files, report, logs,
                                              \* main
  run, writes, target_faults, processed, read_failed, orig
                                              \* history of main, for the claims

gvars == <<g_pc, g_source, g_target, g_ret>>
svars == <<s_pc, workspace, output_folder_in, output_folder, matching_files, selected>>
mvars == <<pc, overwrite_original, mimic_files, template_text, source_files,
           files, ti, fi, source_content, modified_files, report, logs,
           run, writes, target_faults, processed, read_failed, orig>>
vars == <<gvars, svars, mvars>>

(* ------------- generate_new_content called on its own ----------------- *)
GenUnits == {SA, EA, Q}
GenTargets == UNION {[1..n -> GenUnits] : n \in 0..MaxTargetLen}
GenSources == {<<>>, <<Q>>, <<BS, BS>>, <<BS, Q>>, <<EA>>, <<SA, Q, EA>>}
NoReturn == [raised |-> FALSE, value |-> NoText]

GenIdle ==
  /\ g_pc = "off"
  /\ g_source = <<>>
  /\ g_target = <<>>
  /\ g_ret = NoReturn

GenInit ==
  /\ g_pc = "call"
  /\ g_source \in GenSources
  /\ g_target \in GenTargets
  /\ g_ret = NoReturn

GenCall ==
  /\ g_pc = "call"
  /\ g_ret' = generate_new_content(g_source, g_target, SA, EA)
  /\ g_pc' = "returned"
  /\ UNCHANGED <<g_source, g_target>>

(* ---------------- selection of the source files ----------------------- *)
\* Paths are sequences of characters.
root_dir == <<"/", "w", "/">>       \* '/github/workspace/' (src/mimic.py:124)
file_exts == {<<"m">>}              \* the cleaned extension list (src/mimic.py:121-122, 134)

startswith(str, prefix) ==
  /\ Len(prefix) <= Len(str)
  /\ SubSeq(str, 1, Len(prefix)) = prefix

endswith(str, suffix) ==
  /\ Len(suffix) <= Len(str)
  /\ SubSeq(str, Len(str) - Len(suffix) + 1, Len(str)) = suffix

\* The last component of a path: the `file` that os.walk yields.
basename(path) ==
  LET slashes == {i \in 1..Len(path) : path[i] = "/"}
      last == IF slashes = {} THEN 0
              ELSE CHOOSE i \in slashes : \A j \in slashes : j <= i
  IN SubSeq(path, last + 1, Len(path))

\* os.path.join(a, rel) for a relative path rel
join(a, rel) ==
  IF a = <<>> \/ a[Len(a)] = "/" THEN a \o rel ELSE a \o <<"/">> \o rel

\* os.path.relpath(f, root_dir) for a normalised f under root_dir
relpath(f, root) == SubSeq(f, Len(root) + 1, Len(f))

\* re.sub(r'^/|/$', '', folder)   (src/mimic.py:130-131)
strip_slashes(folder) ==
  LET a == IF Len(folder) > 0 /\ folder[1] = "/"
           THEN SubSeq(folder, 2, Len(folder)) ELSE folder
  IN IF Len(a) > 0 /\ a[Len(a)] = "/" THEN SubSeq(a, 1, Len(a) - 1) ELSE a

\* src/mimic.py:89-96
find_files_with_extensions(tree, extensions) ==
  {f \in tree : \E ext \in extensions : endswith(basename(f), <<".">> \o ext)}

\* the condition of the list comprehension at src/mimic.py:164
not_in_output(f, folder) == ~startswith(relpath(f, root_dir), folder)

SelRelPaths ==
  { <<"o", "/", "p", ".", "m">>,     \* o/p.m
    <<"o", "p", ".", "m">>,          \* op.m
    <<"o", "p", "/", "p", ".", "m">>,\* op/p.m
    <<"p", ".", "m">>,               \* p.m
    <<"p", "/", "o", ".", "m">>,     \* p/o.m
    <<"p", ".", "o">>,               \* p.o
    <<"o", "/", "p", ".", "o">> }    \* o/p.o
SelFolders == { <<"o">>, <<"/", "o", "/">>, <<"o", "/">>, <<"o", "p">> }

SelIdle ==
  /\ s_pc = "off"
  /\ workspace = {}
  /\ output_folder_in = <<>>
  /\ output_folder = <<>>
  /\ matching_files = {}
  /\ selected = {}

SelInit ==
  /\ s_pc = "clean"
  /\ workspace \in SUBSET {join(root_dir, r) : r \in SelRelPaths}
  /\ output_folder_in \in SelFolders
  /\ output_folder = output_folder_in
  /\ matching_files = {}
  /\ selected = {}

\* src/mimic.py:131
CleanFolder ==
  /\ s_pc = "clean"
  /\ output_folder' = strip_slashes(output_folder_in)
  /\ s_pc' = "walk"
  /\ UNCHANGED <<workspace, output_folder_in, matching_files, selected>>

\* src/mimic.py:163
Walk ==
  /\ s_pc = "walk"
  /\ matching_files' = find_files_with_extensions(workspace, file_exts)
  /\ s_pc' = "filter"
  /\ UNCHANGED <<workspace, output_folder_in, output_folder, selected>>

\* src/mimic.py:164
Exclude ==
  /\ s_pc = "filter"
  /\ selected' = {f \in matching_files : not_in_output(f, output_folder)}
  /\ s_pc' = "selected"
  /\ UNCHANGED <<workspace, output_folder_in, output_folder, matching_files>>

(* ------------------------------ main ---------------------------------- *)
MimicA == <<"a", ".", "m", "i", "m", "i", "c">>     \* a.mimic
MimicB == <<"b", ".", "m", "i", "m", "i", "c">>     \* b.mimic
MimicNames == {MimicA, MimicB}

\* str.upper() on the characters used in template names
upper(c) == CASE c = "a" -> "A" [] c = "b" -> "B" [] OTHER -> c

\* os.path.splitext(name)[0]: the name up to its last dot (a leading dot is
\* part of the stem)
splitext_stem(name) ==
  LET dots == {i \in 2..Len(name) : name[i] = "."}
  IN IF dots = {} THEN name
     ELSE SubSeq(name, 1, (CHOOSE i \in dots : \A j \in dots : j <= i) - 1)

RECURSIVE to_string(_)
to_string(chars) ==
  IF chars = <<>> THEN "" ELSE Head(chars) \o to_string(Tail(chars))

\* src/mimic.py:83-87
get_template_identifier(mimic_file) ==
  LET stem == splitext_stem(mimic_file)
  IN to_string([i \in 1..Len(stem) |-> upper(stem[i])])

MainFolder == <<"o">>                               \* output_folder, cleaned
output_path == join(root_dir, MainFolder)           \* src/mimic.py:145
Src1 == join(root_dir, <<"p", ".", "m">>)           \* /w/p.m
Src2 == join(root_dir, <<"p", "/", "o", ".", "m">>) \* /w/p/o.m

\* src/mimic.py:213-214
output_file_path(source_path) == join(output_path, relpath(source_path, root_dir))

AllPaths == <<Src1, Src2, output_file_path(Src1), output_file_path(Src2)>>
PathSet == {AllPaths[i] : i \in 1..Len(AllPaths)}

TemplateTexts == { <<Q>>, <<BS, Q>>, <<SB, Q, EB>> }
TargetTexts ==
  { <<Q>>,                             \* no tag
    <<SA, Q, EA>>,                     \* the tags of a.mimic
    <<SA, Q, EA, Q, SB, Q, EB>>,       \* the tags of both templates
    <<SA, Q>>,                         \* a start tag and no end tag
    <<EA>>,                            \* an end tag and no start tag
    <<EA, Q, SA>>,                     \* the end tag only before the start tag
    <<SA, NL, Q, NL, EA>> }            \* the region already holds "q"

\* The I/O operations of one pass that may fail together: reading the source
\* file, reading the existing output file, opening a file for writing (or
\* creating its directory), writing it.
FaultSets ==
  { {}, {"read"}, {"exists"}, {"open"}, {"write"},
    {"exists", "open"}, {"exists", "write"} }

\* has_both_tags with the test of the end tag left out
has_start_tag_only(content, stag, etag) == contains(content, stag)

\* src/mimic.py:195
has_both_tags(content, stag, etag) == contains(content, stag) /\ contains(content, etag)

\* content_changed with the comparison left out: every matched file is written
content_changed_always(updated, content) == TRUE

\* src/mimic.py:204
content_changed(updated, content) == updated # content

\* src/mimic.py:222
same_as_existing(existing, updated) == existing = updated

\* after_target with the try/except around the loop instead of inside it: an
\* exception in one pass reaches the handler of main and ends the run
after_target_outer_handler(raised) == IF raised THEN "failed" ELSE "target"

\* Where control goes after one pass of the loop body at src/mimic.py:189-239:
\* the try/except is inside the loop, so an exception ends the pass only.
after_target(raised) == "target"

\* Where control goes when reading the template raises (src/mimic.py:182-183):
\* no handler inside the loop, so the handler of main at 250-253 ends the run.
after_template_error == "failed"

is_source(f) ==
  /\ files[f] # NoFile
  /\ f \in find_files_with_extensions(PathSet, file_exts)
  /\ not_in_output(f, MainFolder)

cur_template == mimic_files[ti]
cur_start == start_tag(get_template_identifier(cur_template))
cur_end == end_tag(get_template_identifier(cur_template))
cur_path == source_files[fi]

\* One pass of the loop body (src/mimic.py:190-239) on cur_path, with the I/O
\* operations named in F failing.  A failing open leaves the file as it was; a
\* failing write comes after open(path, "w") has emptied the file.
\*   raised  an exception reached the handler at 238        io  an I/O operation failed
\*   counted what the pass adds to modified_files            wrote  files it wrote to
target_outcome(F) ==
  LET p == cur_path
      content == files[p]
      out(r, i, fs, c, lg, w) ==
        [raised |-> r, io |-> i, files |-> fs, counted |-> c, wrote |-> w,
         logs |-> IF r THEN lg \cup {"Error processing"} ELSE lg]
  IN IF "read" \in F THEN out(TRUE, TRUE, files, 0, {}, 0)
     ELSE IF ~has_both_tags(content, cur_start, cur_end)
       THEN out(FALSE, FALSE, files, 0, {}, 0)
     ELSE
       LET u == generate_new_content(source_content, content, cur_start, cur_end)
           lg == IF re_search(content, cur_start, cur_end) THEN {}
                 ELSE {"Pattern not found"}
       IN IF u.raised THEN out(TRUE, FALSE, files, 0, lg, 0)
          ELSE IF overwrite_original
            THEN IF content_changed(u.value, content)
                 THEN IF "open" \in F THEN out(TRUE, TRUE, files, 0, lg, 0)
                      ELSE IF "write" \in F
                        THEN out(TRUE, TRUE, [files EXCEPT ![p] = <<>>], 0, lg, 1)
                      ELSE out(FALSE, FALSE, [files EXCEPT ![p] = u.value], 1, lg, 1)
                 ELSE out(FALSE, FALSE, files, 0, lg \cup {"No changes needed"}, 0)
          ELSE
            LET o == output_file_path(p)
                exists == files[o] # NoFile
                unreadable == exists /\ "exists" \in F
                should_write ==
                  \/ ~exists
                  \/ unreadable
                  \/ ~same_as_existing(files[o], u.value)
                lg2 == IF unreadable
                       THEN lg \cup {"Could not read existing output file"} ELSE lg
            IN IF should_write
               THEN IF "open" \in F THEN out(TRUE, TRUE, files, 0, lg2, 0)
                    ELSE IF "write" \in F
                      THEN out(TRUE, TRUE, [files EXCEPT ![o] = <<>>], 0, lg2, 1)
                    ELSE out(FALSE, unreadable, [files EXCEPT ![o] = u.value], 1,
                             lg2 \cup {"Created/updated output file"}, 1)
               ELSE out(FALSE, FALSE, files, 0, lg2, 0)

MainIdle ==
  /\ pc = "off"
  /\ overwrite_original = FALSE
  /\ mimic_files = <<>>
  /\ template_text = <<>>
  /\ source_files = <<>>
  /\ files = <<>>
  /\ ti = 1
  /\ fi = 1
  /\ source_content = <<>>
  /\ modified_files = 0
  /\ report = {}
  /\ logs = {}
  /\ run = 1
  /\ writes = 0
  /\ target_faults = 0
  /\ processed = {}
  /\ read_failed = {}
  /\ orig = <<>>

MainInit ==
  /\ pc = "scan"
  /\ overwrite_original \in BOOLEAN
  /\ mimic_files \in {<<MimicA, MimicB>>, <<MimicB, MimicA>>}
  /\ template_text \in [MimicNames -> TemplateTexts]
  /\ source_files = <<>>
  /\ files \in {f \in [PathSet -> TargetTexts \cup {NoFile}] :
                  /\ f[Src1] # NoFile /\ f[Src2] # NoFile
                  /\ f[output_file_path(Src1)] = NoFile
                  /\ f[output_file_path(Src2)] = NoFile}
  /\ ti = 1
  /\ fi = 1
  /\ source_content = <<>>
  /\ modified_files = 0
  /\ report = {}
  /\ logs = {}
  /\ run = 1
  /\ writes = 0
  /\ target_faults = 0
  /\ processed = {}
  /\ read_failed = {}
  /\ orig = files

\* src/mimic.py:160-164: the templates and the source files are listed once,
\* before the loop over the templates.
Scan ==
  /\ pc = "scan"
  /\ source_files' = SelectSeq(AllPaths, is_source)
  /\ pc' = "template"
  /\ logs' = {}
  /\ UNCHANGED <<overwrite_original, mimic_files, template_text, files, ti, fi,
                 source_content, modified_files, report, run, writes, target_faults,
                 processed, read_failed, orig>>

\* src/mimic.py:169-186, the template is read
ReadTemplate ==
  /\ pc = "template"
  /\ ti <= Len(mimic_files)
  /\ source_content' = template_text[cur_template]
  /\ modified_files' = 0
  /\ fi' = 1
  /\ pc' = "target"
  /\ logs' = {"Processing template"}
  /\ UNCHANGED <<overwrite_original, mimic_files, template_text, source_files, files,
                 ti, report, run, writes, target_faults, processed, read_failed, orig>>

\* src/mimic.py:182-183 raises (OSError, UnicodeDecodeError)
ReadTemplateFails ==
  /\ pc = "template"
  /\ ti <= Len(mimic_files)
  /\ pc' = after_template_error
  /\ ti' = IF after_template_error = "template" THEN ti + 1 ELSE ti
  /\ logs' = {"Processing template",
              IF after_template_error = "failed" THEN "Unexpected Error"
              ELSE "Error reading template"}
  /\ read_failed' = read_failed \cup {cur_template}
  /\ UNCHANGED <<overwrite_original, mimic_files, template_text, source_files, files,
                 fi, source_content, modified_files, report, run, writes,
                 target_faults, processed, orig>>

\* src/mimic.py:189-239, one source file
ProcessTarget ==
  /\ pc = "target"
  /\ fi <= Len(source_files)
  /\ \E F \in (IF target_faults < MaxFaults THEN FaultSets ELSE {{}}) :
       LET o == target_outcome(F)
       IN /\ files' = o.files
          /\ modified_files' = modified_files + o.counted
          /\ logs' = o.logs
          /\ writes' = writes + o.wrote
          /\ target_faults' = target_faults + (IF o.io THEN 1 ELSE 0)
          /\ pc' = after_target(o.raised)
          /\ fi' = IF after_target(o.raised) = "target" THEN fi + 1 ELSE fi
  /\ processed' = processed \cup {<<cur_template, cur_path>>}
  /\ UNCHANGED <<overwrite_original, mimic_files, template_text, source_files,
                 ti, source_content, report, run, read_failed, orig>>

\* src/mimic.py:241
FinishTemplate ==
  /\ pc = "target"
  /\ fi > Len(source_files)
  /\ report' = report \cup {<<cur_template, modified_files>>}
  /\ logs' = {"Template updated files"}
  /\ ti' = ti + 1
  /\ pc' = "template"
  /\ UNCHANGED <<overwrite_original, mimic_files, template_text, source_files, files,
                 fi, source_content, modified_files, run, writes, target_faults,
                 processed, read_failed, orig>>

\* src/mimic.py:243-248, the loop over the templates has ended
Commit ==
  /\ pc = "template"
  /\ ti > Len(mimic_files)
  /\ pc' = "done"
  /\ logs' = {}
  /\ UNCHANGED <<overwrite_original, mimic_files, template_text, source_files, files,
                 ti, fi, source_content, modified_files, report, run, writes,
                 target_faults, processed, read_failed, orig>>

\* main is run again on the files the run before left
RunAgain ==
  /\ pc = "done"
  /\ run < MaxRuns
  /\ run' = run + 1
  /\ pc' = "scan"
  /\ source_files' = <<>>
  /\ ti' = 1
  /\ fi' = 1
  /\ source_content' = <<>>
  /\ modified_files' = 0
  /\ report' = {}
  /\ logs' = {}
  /\ writes' = 0
  /\ processed' = {}
  /\ UNCHANGED <<overwrite_original, mimic_files, template_text, files, target_faults,
                 read_failed, orig>>

(* ------------------------- specifications ----------------------------- *)
Init == GenIdle /\ SelIdle /\ MainInit
Next ==
  \/ (Scan /\ UNCHANGED <<gvars, svars>>)
  \/ (ReadTemplate /\ UNCHANGED <<gvars, svars>>)
  \/ (ReadTemplateFails /\ UNCHANGED <<gvars, svars>>)
  \/ (ProcessTarget /\ UNCHANGED <<gvars, svars>>)
  \/ (FinishTemplate /\ UNCHANGED <<gvars, svars>>)
  \/ (Commit /\ UNCHANGED <<gvars, svars>>)
  \/ (RunAgain /\ UNCHANGED <<gvars, svars>>)
Spec == Init /\ [][Next]_vars

GenNext == GenCall /\ UNCHANGED <<svars, mvars>>
InitGen == GenInit /\ SelIdle /\ MainIdle
SpecGen == InitGen /\ [][GenNext]_vars

SelNext ==
  \/ (CleanFolder /\ UNCHANGED <<gvars, mvars>>)
  \/ (Walk /\ UNCHANGED <<gvars, mvars>>)
  \/ (Exclude /\ UNCHANGED <<gvars, mvars>>)
InitSel == GenIdle /\ SelInit /\ MainIdle
SpecSel == InitSel /\ [][SelNext]_vars

(* ============================ the claims ============================== *)
\* Positions of a tag in a text, and the region a claim speaks of: from the
\* first start tag through the first end tag after it.
positions(text, tag) == {i \in 1..Len(text) : text[i] = tag}
first_of(S) == CHOOSE i \in S : \A j \in S : i <= j
ends_after(text, i, etag) == {j \in positions(text, etag) : j > i}

\* text with that region replaced by stag, newline, Z, newline, etag
region_replaced(Z, text, stag, etag) ==
  LET i == first_of(positions(text, stag))
      j == first_of(ends_after(text, i, etag))
  IN SubSeq(text, 1, i - 1) \o <<stag, NL>> \o Z \o <<NL, etag>>
       \o SubSeq(text, j + 1, Len(text))

\* exactly one start tag, and an end tag somewhere after it
one_start_then_end(text, stag, etag) ==
  /\ Cardinality(positions(text, stag)) = 1
  /\ ends_after(text, first_of(positions(text, stag)), etag) # {}

(* ------------------------------ C1 ------------------------------------ *)
\* C1: for every template content Z and every target with exactly one start
\* tag and at least one end tag after it, generate_new_content returns the
\* target with the span from the start tag through the FIRST end tag after it
\* replaced by startTag, newline, Z, newline, endTag; an empty region (the end
\* tag right after the start tag) included, later end tags left in the suffix.
C1_RegionReplaced ==
  (g_pc = "returned" /\ one_start_then_end(g_target, SA, EA))
    => g_ret = [raised |-> FALSE, value |-> region_replaced(g_source, g_target, SA, EA)]

(* ------------------------------ C10 ----------------------------------- *)
\* The target holds the tag pair twice, start/end then start/end again, each
\* region non-empty, and the template holds no backslash.
two_pairs(text, stag, etag) ==
  /\ positions(text, stag) # {}
  /\ LET i == first_of(positions(text, stag))
     IN /\ ends_after(text, i, etag) # {}
        /\ LET j == first_of(ends_after(text, i, etag))
           IN /\ j > i + 1
              /\ \E k \in positions(text, stag) : \E l \in positions(text, etag) :
                   j < k /\ k + 1 < l

\* C10: when a target holds the same template's tag pair more than once, one
\* call of generate_new_content replaces the first tagged region only and
\* leaves every later tag pair, and the text between those tags, as it was.
C10_FirstRegionOnly ==
  (g_pc = "returned" /\ two_pairs(g_target, SA, EA) /\ ~contains(g_source, BS))
    => g_ret = [raised |-> FALSE, value |-> region_replaced(g_source, g_target, SA, EA)]

(* ------------------------------ C7 ------------------------------------ *)
\* The extension of a file name: what follows its last dot.
extension(name) ==
  LET dots == positions(name, ".")
  IN IF dots = {} THEN <<>>
     ELSE SubSeq(name, (CHOOSE i \in dots : \A j \in dots : j <= i) + 1, Len(name))

\* The file lies under the output root: its path relative to the workspace
\* root goes through the directory output_folder.
under_output_root(f) == startswith(relpath(f, root_dir), output_folder \o <<"/">>)

\* C7: a file of the workspace is a source file if and only if its extension
\* is one of the configured extensions and it does not lie under the output
\* root; a file whose relative path merely begins with the characters of the
\* output folder's name is not excluded.
C7_SelectedIffNotUnderOutput ==
  s_pc = "selected" =>
    \A f \in workspace :
      f \in selected <=>
        (extension(basename(f)) \in file_exts /\ ~under_output_root(f))

(* --------------------- main: what the claims read --------------------- *)
in_pass == pc = "target" /\ fi <= Len(source_files)
\* where the pass on source file p writes
destination(p) == IF overwrite_original THEN p ELSE output_file_path(p)
SourceSet == {source_files[i] : i \in 1..Len(source_files)}
\* a template text that holds neither a tag nor a backslash
plain(text) == \A i \in 1..Len(text) : text[i] \in Letters \cup {NL}

(* ------------------------------ C2 ------------------------------------ *)
\* C2: when the propagation loop has run to completion and is run a second
\* time with nothing else changing the files, the second run writes no file
\* and reports zero modified files for every template; in both modes, also
\* when a target holds the tags of several templates or a template's text
\* holds tag-like text.
C2_SecondRunWritesNothing ==
  (run = 2 /\ target_faults = 0) =>
    /\ writes = 0
    /\ modified_files = 0
    /\ \A r \in report : r[2] = 0

(* ------------------------------ C3 ------------------------------------ *)
\* C3: a target with a well-formed tag pair of each of two templates has, after
\* one complete run, BOTH regions of its destination file (the target itself in
\* place, the mirrored file in copy mode) replaced by the templates' texts,
\* whatever the order of the templates.
C3_BothRegionsReplaced ==
  (pc = "done" /\ run = 1 /\ target_faults = 0
     /\ \A n \in MimicNames : plain(template_text[n]))
  => \A p \in SourceSet :
       (one_start_then_end(orig[p], SA, EA) /\ one_start_then_end(orig[p], SB, EB))
       => files[destination(p)] =
            region_replaced(template_text[MimicB],
              region_replaced(template_text[MimicA], orig[p], SA, EA), SB, EB)

(* ------------------------------ C4 ------------------------------------ *)
\* C4: a failure to read one template is isolated to that template: the run
\* still processes every other template against every source file and goes on
\* to its normal end.
C4_TemplateReadErrorIsolated ==
  pc \in {"done", "failed"} =>
    /\ pc = "done"
    /\ \A n \in MimicNames \ read_failed : \A p \in SourceSet : <<n, p>> \in processed

(* ------------------------------ C5 ------------------------------------ *)
\* The tags of the current template are malformed in the text: a start tag and
\* no end tag, an end tag and no start tag, or end tags only before the start
\* tags.
malformed(text, stag, etag) ==
  \/ contains(text, stag) /\ ~contains(text, etag)
  \/ contains(text, etag) /\ ~contains(text, stag)
  \/ /\ contains(text, stag) /\ contains(text, etag)
     /\ \A i \in positions(text, etag) : \A j \in positions(text, stag) : i < j

\* C5: the pass of template T over a target whose tags for T are malformed
\* writes no file in either mode (not the target, not a copy under the output
\* root), does not count the target, and goes on to the next target.
C5_MalformedSkipped ==
  [][ (in_pass /\ malformed(files[cur_path], cur_start, cur_end))
        => /\ files' = files
           /\ modified_files' = modified_files
           /\ pc' = "target" /\ fi' = fi + 1 ]_vars

(* ------------------------------ C6 ------------------------------------ *)
\* The substitution of the current template in the current source file.
cur_matched == has_both_tags(files[cur_path], cur_start, cur_end)
cur_updated == generate_new_content(source_content, files[cur_path], cur_start, cur_end)

C8_TagIsolation ==
  [][ (in_pass /\ ~(contains(files[cur_path], cur_start) /\ contains(files[cur_path], cur_end)))
        => /\ files' = files
           /\ writes' = writes
           /\ modified_files' = modified_files ]_vars

\* The pass of one template has gone over a first source file that holds the
\* other template's tag pair and not its own, and nothing was written.
C8_Witness ==
  /\ pc = "target" /\ fi = 2 /\ run = 1 /\ writes = 0
  /\ LET c == files[source_files[1]]
         other == IF cur_template = MimicA THEN MimicB ELSE MimicA
     IN /\ ~(contains(c, cur_start) /\ contains(c, cur_end))
        /\ contains(c, start_tag(get_template_identifier(other)))
        /\ contains(c, end_tag(get_template_identifier(other)))

(* ------------------------------ C9 ------------------------------------ *)
AllPairs == {<<n, p>> : n \in MimicNames, p \in SourceSet}

\* C9: an error in the pass over one target is logged and ends that pass only:
\* the loop goes on with the next target of the same template; the run is
\* ended early by nothing but a template that cannot be read; and a run that
\* reaches its end has processed every target for every template.
C9_TargetErrorIsolated ==
  /\ [][ (in_pass /\ "Error processing" \in logs')
           => /\ pc' = "target" /\ ti' = ti /\ fi' = fi + 1
              /\ source_content' = source_content
              /\ modified_files' = modified_files ]_vars
  /\ [](pc = "failed" => read_failed # {})
  /\ [](pc = "done" => processed = AllPairs)

\* A run in which an I/O operation on a target failed has reached its end.
C9_Witness ==
  /\ pc = "done" /\ run = 1 /\ target_faults > 0
  /\ processed = AllPairs

====
